---- MODULE Spec2Model ----
(***************************************************************************)
(* A model of main.py: the five-stage pipeline                             *)
(*   fetch_trending_tweets -> analyze_with_claude ->                       *)
(*   extract_keywords_from_tweets -> analyze_keywords_with_dataforseo ->   *)
(*   process_tweets -> save_report                                         *)
(* run by main().                                                          *)
(*                                                                         *)
(* Representation.                                                         *)
(*  - A Python str is a sequence of one-character strings, so that         *)
(*    len(), str.lower(), str.find(), str.rfind() and slicing are          *)
(*    computed character by character.                                     *)
(*  - A Python dict is a function whose domain is its key set; d.get(k,x)  *)
(*    is Get(d, k, x).  Keys of the API payloads (fixed field names) are   *)
(*    TLA+ strings; keys of a dict parsed from the LLM reply are Python    *)
(*    strs, i.e. character sequences.                                      *)
(*  - A value of unvalidated shape (anything json.loads returned) is a     *)
(*    tagged record: None, JBool(b), JNum(n), JStr(s), JArr(seq),         *)
(*    JObj(dict).  A float competition c is JFrac(q), q = c * CompDenom;   *)
(*    CompDenom is a power of two, so 1 - c and volume * (1 - c) are       *)
(*    exact in IEEE double and the model's integer arithmetic on q is the  *)
(*    arithmetic Python performs.                                          *)
(*  - A function that can raise returns [raised |-> ..., val |-> ...].     *)
(***************************************************************************)
EXTENDS Integers, Sequences, FiniteSets, Bags, TLC

VARIABLES
    pc,                  \* position in main(): the next statement to run
    DATAFORSEO_LOGIN,    \* module global read from the environment (line 23)
    clock,               \* what datetime.now() returns during this run
    tweets,              \* main's local `tweets`
    llm_response,        \* the HTTP outcome analyze_with_claude received
    claude_analysis,     \* main's local `claude_analysis`
    keywords,            \* main's local `keywords` (a list, kept up to order)
    dataforseo_keywords, \* main's local `dataforseo_keywords`
    report,              \* main's local `report`
    filename,            \* main's local `filename`
    files,               \* report files present on disk
    calls,               \* the external APIs a request was issued to
    outcome              \* "running", "exit1" (sys.exit(1)), "raised", "returned"

vars == << pc, DATAFORSEO_LOGIN, clock, tweets, llm_response, claude_analysis,
           keywords, dataforseo_keywords, report, filename, files, calls,
           outcome >>

(***************************************************************************)
(* Bounds of the model and constants of the program                        *)
(***************************************************************************)
\* longest run of brace/prose characters enumerated as an LLM reply
MaxReplyLen == 4
\* largest number of posts in an enumerated long post list
MaxPosts == 11
\* largest number of distinct hashtags on the post that overfills the cap
MaxTags == 21
\* latest value of the clock
MaxClock == 1

\* tweets[:10] in process_tweets
TweetCap == 10
\* sorted(hashtag_freq.items(), ...)[:10]
TopHashtagCap == 10
\* best_keywords[:10]
BestCap == 10
\* tweet text [:200]
TextCap == 200
\* hashtags[:5]
HashtagCap == 5
\* len(k) > 2
MinLenExcl == 2
\* len(k) < 50
MaxLenExcl == 50
\* list(keywords)[:20]
KeywordCap == 20
\* item["items"][:30]
ItemCap == 30
\* denominator of the modelled competition values: quarters, a power of two
CompDenom == 2 ^ 2

(***************************************************************************)
(* Python values                                                           *)
(***************************************************************************)
None == [t |-> "None"]

JBool(b) == [t |-> "bool", b |-> b]
JNum(n) == [t |-> "num", n |-> n]
JFrac(q) == [t |-> "frac", q |-> q]
JStr(s) == [t |-> "str", s |-> s]
JArr(a) == [t |-> "arr", a |-> a]
JObj(d) == [t |-> "obj", d |-> d]

EmptyDict == [k \in {} |-> None]

\* d.get(k, default)
Get(d, k, default) == IF k \in DOMAIN d THEN d[k] ELSE default

\* d[k] = v  (dict item assignment)
SetItem(d, k, v) == [x \in (DOMAIN d) \cup {k} |-> IF x = k THEN v ELSE d[x]]

\* seq[:n] for n >= 0
Take(seq, n) == SubSeq(seq, 1, IF Len(seq) < n THEN Len(seq) ELSE n)

\* seq[start:end] for 0 <= start, 0 <= end (Python's 0-based, end-exclusive)
Slice(seq, start, end) ==
    LET e == IF end > Len(seq) THEN Len(seq) ELSE end
    IN  IF start >= e THEN << >> ELSE SubSeq(seq, start + 1, e)

Range(seq) == {seq[i] : i \in DOMAIN seq}

\* a string of n copies of character c
Rep(c, n) == [i \in 1..n |-> c]

RECURSIVE Sum(_)
Sum(seq) == IF seq = << >> THEN 0 ELSE Head(seq) + Sum(Tail(seq))

(***************************************************************************)
(* str methods                                                             *)
(***************************************************************************)
Uppercase ==
    {"A", "B", "C", "D", "E", "F", "G", "H", "I", "J", "K", "L", "M",
     "N", "O", "P", "Q", "R", "S", "T", "U", "V", "W", "X", "Y", "Z"}

UpperToLower ==
    [c \in Uppercase |->
        CASE c = "A" -> "a" [] c = "B" -> "b" [] c = "C" -> "c" [] c = "D" -> "d"
          [] c = "E" -> "e" [] c = "F" -> "f" [] c = "G" -> "g" [] c = "H" -> "h"
          [] c = "I" -> "i" [] c = "J" -> "j" [] c = "K" -> "k" [] c = "L" -> "l"
          [] c = "M" -> "m" [] c = "N" -> "n" [] c = "O" -> "o" [] c = "P" -> "p"
          [] c = "Q" -> "q" [] c = "R" -> "r" [] c = "S" -> "s" [] c = "T" -> "t"
          [] c = "U" -> "u" [] c = "V" -> "v" [] c = "W" -> "w" [] c = "X" -> "x"
          [] c = "Y" -> "y" [] c = "Z" -> "z"]

\* str.lower()
Lower(s) == [i \in DOMAIN s |->
                IF s[i] \in DOMAIN UpperToLower THEN UpperToLower[s[i]] ELSE s[i]]

\* str.find(c): 0-based index of the first occurrence, -1 when absent
Find(s, c) ==
    IF \E i \in DOMAIN s : s[i] = c
    THEN (CHOOSE i \in DOMAIN s : s[i] = c /\ \A j \in 1..(i - 1) : s[j] # c) - 1
    ELSE -1

\* str.rfind(c): 0-based index of the last occurrence, -1 when absent
\* (RFindFirst: the index str.find would give instead)
RFindFirst(s, c) == Find(s, c)
RFind(s, c) ==
    IF \E i \in DOMAIN s : s[i] = c
    THEN (CHOOSE i \in DOMAIN s : s[i] = c /\ \A j \in (i + 1)..Len(s) : s[j] # c) - 1
    ELSE -1

(***************************************************************************)
(* json.loads on the characters the modelled replies are made of:          *)
(* objects, arrays, strings without escapes, unsigned decimal integers,    *)
(* the literals null / true / false / NaN / Infinity, and spaces between   *)
(* tokens.  Every reply the model enumerates lies inside this grammar or   *)
(* is rejected by json.loads for a reason this grammar also rejects.       *)
(***************************************************************************)
JFloat(name) == [t |-> "float", f |-> name]

Digits == {"0", "1", "2", "3", "4", "5", "6", "7", "8", "9"}

DigitValue ==
    [c \in Digits |->
        CASE c = "0" -> 0 [] c = "1" -> 1 [] c = "2" -> 2 [] c = "3" -> 3
          [] c = "4" -> 4 [] c = "5" -> 5 [] c = "6" -> 6 [] c = "7" -> 7
          [] c = "8" -> 8 [] c = "9" -> 9]

\* the character at 1-based position i, "" past the end
At(s, i) == IF i \in 1..Len(s) THEN s[i] ELSE ""

StartsWith(s, i, word) ==
    /\ i + Len(word) - 1 <= Len(s)
    /\ \A j \in 1..Len(word) : s[i + j - 1] = word[j]

ParseFail == [ok |-> FALSE, val |-> None, next |-> 0]
ParseOk(v, n) == [ok |-> TRUE, val |-> v, next |-> n]

RECURSIVE SkipWs(_, _)
SkipWs(s, i) == IF At(s, i) = " " THEN SkipWs(s, i + 1) ELSE i

\* py_scanstring: s[i] is the opening quote
ParseString(s, i) ==
    IF \E j \in (i + 1)..Len(s) : s[j] = "\""
    THEN LET j == CHOOSE j \in (i + 1)..Len(s) :
                     s[j] = "\"" /\ \A k \in (i + 1)..(j - 1) : s[k] # "\""
         IN  ParseOk(JStr(SubSeq(s, i + 1, j - 1)), j + 1)
    ELSE ParseFail

RECURSIVE DigitsEnd(_, _)
DigitsEnd(s, i) == IF At(s, i) \in Digits THEN DigitsEnd(s, i + 1) ELSE i

RECURSIVE DecimalValue(_)
DecimalValue(ds) ==
    IF ds = << >> THEN 0
    ELSE 10 * DecimalValue(SubSeq(ds, 1, Len(ds) - 1)) + DigitValue[ds[Len(ds)]]

\* NUMBER_RE: (-?(?:0|[1-9]\d*)) matches "0" alone when a digit follows it;
\* the digit left over is then rejected by the caller as a missing delimiter.
ParseNumber(s, i) ==
    IF s[i] = "0" THEN ParseOk(JNum(0), i + 1)
    ELSE LET e == DigitsEnd(s, i)
         IN  ParseOk(JNum(DecimalValue(SubSeq(s, i, e - 1))), e)

RECURSIVE ParseValue(_, _)
RECURSIVE ParseMembers(_, _, _)
RECURSIVE ParseItems(_, _, _)

\* JSONObject, after a key/value pair has been expected: i is at the key's quote
ParseMembers(s, i, acc) ==
    IF At(s, i) # "\"" THEN ParseFail
    ELSE LET k == ParseString(s, i)
         IN  IF ~k.ok THEN ParseFail
             ELSE LET c == SkipWs(s, k.next)
                  IN  IF At(s, c) # ":" THEN ParseFail
                      ELSE LET v == ParseValue(s, SkipWs(s, c + 1))
                           IN  IF ~v.ok THEN ParseFail
                               ELSE LET d == SetItem(acc, k.val.s, v.val)
                                        e == SkipWs(s, v.next)
                                    IN  IF At(s, e) = "}" THEN ParseOk(JObj(d), e + 1)
                                        ELSE IF At(s, e) = ","
                                        THEN ParseMembers(s, SkipWs(s, e + 1), d)
                                        ELSE ParseFail

\* JSONArray, at the start of an element
ParseItems(s, i, acc) ==
    LET v == ParseValue(s, i)
    IN  IF ~v.ok THEN ParseFail
        ELSE LET a == Append(acc, v.val)
                 e == SkipWs(s, v.next)
             IN  IF At(s, e) = "]" THEN ParseOk(JArr(a), e + 1)
                 ELSE IF At(s, e) = ","
                 THEN ParseItems(s, SkipWs(s, e + 1), a)
                 ELSE ParseFail

\* scan_once
ParseValue(s, i) ==
    LET c == At(s, i)
    IN  CASE c = "\"" -> ParseString(s, i)
          [] c = "{" ->
                LET j == SkipWs(s, i + 1)
                IN  IF At(s, j) = "}" THEN ParseOk(JObj(EmptyDict), j + 1)
                    ELSE ParseMembers(s, j, EmptyDict)
          [] c = "[" ->
                LET j == SkipWs(s, i + 1)
                IN  IF At(s, j) = "]" THEN ParseOk(JArr(<< >>), j + 1)
                    ELSE ParseItems(s, j, << >>)
          [] c \in Digits -> ParseNumber(s, i)
          [] OTHER ->
                IF StartsWith(s, i, <<"n", "u", "l", "l">>)
                THEN ParseOk(None, i + 4)
                ELSE IF StartsWith(s, i, <<"t", "r", "u", "e">>)
                THEN ParseOk(JBool(TRUE), i + 4)
                ELSE IF StartsWith(s, i, <<"f", "a", "l", "s", "e">>)
                THEN ParseOk(JBool(FALSE), i + 5)
                ELSE IF StartsWith(s, i, <<"N", "a", "N">>)
                THEN ParseOk(JFloat("nan"), i + 3)
                ELSE IF StartsWith(s, i, <<"I", "n", "f", "i", "n", "i", "t", "y">>)
                THEN ParseOk(JFloat("inf"), i + 8)
                ELSE ParseFail

\* json.loads(s): [raised |-> TRUE] stands for json.JSONDecodeError
JsonLoads(s) ==
    LET v == ParseValue(s, SkipWs(s, 1))
    IN  IF v.ok /\ SkipWs(s, v.next) = Len(s) + 1
        THEN [raised |-> FALSE, val |-> v.val]
        ELSE [raised |-> TRUE, val |-> None]

(***************************************************************************)
(* String literals of the program and of the modelled payloads             *)
(***************************************************************************)
s_raw_response == <<"r", "a", "w", "_", "r", "e", "s", "p", "o", "n", "s", "e">>
s_keywords == <<"k", "e", "y", "w", "o", "r", "d", "s">>
s_topics == <<"t", "o", "p", "i", "c", "s">>
s_technologies == <<"t", "e", "c", "h", "n", "o", "l", "o", "g", "i", "e", "s">>
s_trends == <<"t", "r", "e", "n", "d", "s">>
s_unknown == <<"u", "n", "k", "n", "o", "w", "n">>
s_placeholder == <<"y", "o", "u", "r", "_", "e", "m", "a", "i", "l", "@", "e", "x", "a", "m", "p", "l", "e", ".", "c", "o", "m">>
s_login == <<"m", "e", "@", "c", "o", "r", "p", ".", "i", "o">>

(***************************************************************************)
(* analyze_with_claude                                                     *)
(*                                                                         *)
(* resp is what requests.post / raise_for_status / response.json gave:     *)
(*   kind "error"         the call raised (network, HTTP status, timeout,  *)
(*                        body not JSON)                                   *)
(*   kind "empty_content" a JSON body whose "content" is [] (IndexError,   *)
(*                        caught by the outer handler)                     *)
(*   kind "no_text"       a JSON body without "content", or whose first    *)
(*                        content block has no "text"                      *)
(*   kind "text"          a JSON body with content[0].text = resp.text     *)
(***************************************************************************)
RawResponse(content) == SetItem(EmptyDict, s_raw_response, JStr(content))

\* lines 112-125: the inner try block
ParseReply(content) ==
    LET start == Find(content, "{")
        end == RFind(content, "}") + 1
    IN  IF start >= 0 /\ end > start
        THEN LET r == JsonLoads(Slice(content, start, end))
             IN  IF r.raised THEN RawResponse(content) ELSE r.val.d
        ELSE RawResponse(content)

\* whether analyze_with_claude issues the request: lines 60-62 return early
\* on an empty list; the digest of lines 67-72 reads only fields the modelled
\* posts hold with the types the search API documents, so it does not raise
ClaudeCalled(tws) == tws # << >>

\* the value analyze_with_claude returns
AnalyzeWithClaude(tws, resp) ==
    IF tws = << >> THEN EmptyDict
    ELSE CASE resp.kind = "error" -> EmptyDict
           [] resp.kind = "empty_content" -> EmptyDict
           [] resp.kind = "no_text" -> ParseReply(<<"{", "}">>)
           [] resp.kind = "text" -> ParseReply(resp.text)

(***************************************************************************)
(* extract_keywords_from_tweets                                            *)
(***************************************************************************)
HashtagsOf(tweet) == Get(tweet, "hashtags", << >>)

\* lines 136-138: lower-cased non-empty hashtags of all posts
TweetTags(tws) ==
    UNION { {Lower(h) : h \in {x \in Range(HashtagsOf(tws[i])) : x # << >>}} :
            i \in DOMAIN tws }

\* `for x in v`: a list yields its elements, a str its characters, a dict its
\* keys; None, a number or a bool is not iterable (TypeError)
Iterate(v) ==
    CASE v.t = "arr" -> [raised |-> FALSE, val |-> Range(v.a)]
      [] v.t = "str" -> [raised |-> FALSE, val |-> {JStr(<<v.s[i]>>) : i \in DOMAIN v.s}]
      [] v.t = "obj" -> [raised |-> FALSE, val |-> {JStr(k) : k \in DOMAIN v.d}]
      [] OTHER -> [raised |-> TRUE, val |-> {}]

\* `x.lower() for x in v`: only a str has .lower() (AttributeError otherwise)
LowerEach(v) ==
    LET it == Iterate(v)
    IN  IF it.raised \/ \E x \in it.val : x.t # "str"
        THEN [raised |-> TRUE, val |-> {}]
        ELSE [raised |-> FALSE, val |-> {Lower(x.s) : x \in it.val}]

\* lines 141-144
AnalysisTerms(ca) ==
    IF DOMAIN ca = {} THEN [raised |-> FALSE, val |-> {}]
    ELSE LET k == LowerEach(Get(ca, s_keywords, JArr(<< >>)))
             t == LowerEach(Get(ca, s_topics, JArr(<< >>)))
             h == LowerEach(Get(ca, s_technologies, JArr(<< >>)))
         IN  IF k.raised \/ t.raised \/ h.raised
             THEN [raised |-> TRUE, val |-> {}]
             ELSE [raised |-> FALSE, val |-> k.val \cup t.val \cup h.val]

\* line 147: len(k) > 2 and len(k) < 50
\* (LengthOkLoose: the filter with the lower bound included)
LengthOkLoose(k) == Len(k) >= MinLenExcl /\ Len(k) < MaxLenExcl
LengthOk(k) == Len(k) > MinLenExcl /\ Len(k) < MaxLenExcl

\* the subsets of S with exactly n elements fewer than S
RECURSIVE Dropping(_, _)
Dropping(S, n) ==
    IF n = 0 THEN {S}
    ELSE UNION { {T \ {x} : x \in T} : T \in Dropping(S, n - 1) }

\* line 148: list(keywords)[:20].  The iteration order of a set is not
\* specified, so any 20 of the members may be the ones kept; the list is kept
\* up to order, as a bag.
FirstOfSet(S, n) ==
    IF Cardinality(S) <= n THEN {SetToBag(S)}
    ELSE {SetToBag(T) : T \in Dropping(S, Cardinality(S) - n)}

\* every value extract_keywords_from_tweets can return, or the raise
ExtractKeywordsFromTweets(tws, ca) ==
    LET a == AnalysisTerms(ca)
    IN  IF a.raised THEN {[raised |-> TRUE, val |-> EmptyBag]}
        ELSE {[raised |-> FALSE, val |-> b] :
                b \in FirstOfSet({k \in TweetTags(tws) \cup a.val : LengthOk(k)},
                                 KeywordCap)}

(***************************************************************************)
(* list.sort(key=..., reverse=True): a stable sort, descending by key.     *)
(* ps is a sequence of <<key, element>> pairs.                             *)
(***************************************************************************)
InsertDesc(ps, p) ==
    LET n == Cardinality({i \in DOMAIN ps : ps[i][1] >= p[1]})
    IN  SubSeq(ps, 1, n) \o <<p>> \o SubSeq(ps, n + 1, Len(ps))

RECURSIVE SortPairsDesc(_)
SortPairsDesc(ps) ==
    IF ps = << >> THEN << >>
    ELSE InsertDesc(SortPairsDesc(SubSeq(ps, 1, Len(ps) - 1)), ps[Len(ps)])

Unpair(ps) == [i \in DOMAIN ps |-> ps[i][2]]

(***************************************************************************)
(* analyze_keywords_with_dataforseo                                        *)
(*                                                                         *)
(* resp is what the POST gave: kind "error" (the call raised) or kind "ok" *)
(* with resp.tasks the "tasks" value of the JSON body: a list of dicts     *)
(* with an optional "result" list of dicts with an optional "items" list.  *)
(***************************************************************************)
\* whether analyze_keywords_with_dataforseo issues the request (lines 152-159)
DataforseoCalled(kws, login) ==
    /\ kws # EmptyBag
    /\ login # JStr(s_placeholder)

\* lines 198-204
KeywordRecord(kw) ==
    [keyword |-> Get(kw, "keyword", None),
     search_volume |-> Get(Get(kw, "keyword_info", EmptyDict), "search_volume", None),
     competition |-> Get(Get(kw, "keyword_info", EmptyDict), "competition", None),
     cpc |-> Get(Get(kw, "keyword_info", EmptyDict), "cpc", None),
     difficulty |-> Get(Get(kw, "keyword_properties", EmptyDict),
                        "keyword_difficulty", None)]

\* a "keyword_info" or "keyword_properties" that is null has no .get
\* (AttributeError, caught at line 212)
ItemRaises(kw) ==
    \/ Get(kw, "keyword_info", EmptyDict) = None
    \/ Get(kw, "keyword_properties", EmptyDict) = None

RECURSIVE Flatten(_)
Flatten(seqs) == IF seqs = << >> THEN << >> ELSE Head(seqs) \o Flatten(Tail(seqs))

\* lines 192-197: the items visited, in order
VisitedItems(tasks) ==
    Flatten([i \in DOMAIN tasks |->
        LET result == Get(tasks[i], "result", << >>)
        IN  Flatten([j \in DOMAIN result |->
                Take(Get(result[j], "items", << >>), ItemCap)])])

\* x.get("search_volume", 0) or 0   and   kw.get("search_volume") or 0
VolumeOrZero(rec) ==
    LET v == Get(rec, "search_volume", None)
    IN  IF v = None THEN 0 ELSE v.n

\* line 207
SortByVolume(recs) ==
    Unpair(SortPairsDesc([i \in DOMAIN recs |-> <<VolumeOrZero(recs[i]), recs[i]>>]))

\* the value analyze_keywords_with_dataforseo returns
AnalyzeKeywordsWithDataforseo(kws, login, resp) ==
    IF ~DataforseoCalled(kws, login) THEN << >>
    ELSE IF resp.kind = "error" THEN << >>
    ELSE LET items == VisitedItems(resp.tasks)
         IN  IF \E i \in DOMAIN items : ItemRaises(items[i]) THEN << >>
             ELSE SortByVolume([i \in DOMAIN items |-> KeywordRecord(items[i])])

(***************************************************************************)
(* process_tweets                                                          *)
(***************************************************************************)
\* line 234: likeCount + retweetCount * 2, a missing count read as 0
EngagementScore(tweet) ==
    Get(tweet, "likeCount", 0) + (Get(tweet, "retweetCount", 0) * 2)

\* line 224: the posts the loop visits
\* (VisitedTweetsAll: the loop without the slice)
VisitedTweetsAll(tws) == tws
VisitedTweets(tws) == Take(tws, TweetCap)

\* lines 228-238
ProcessedTweet(i, tweet) ==
    [rank |-> i,
     text |-> Take(Get(tweet, "text", << >>), TextCap),
     engagement |-> [likes |-> Get(tweet, "likeCount", 0),
                     retweets |-> Get(tweet, "retweetCount", 0),
                     score |-> EngagementScore(tweet)],
     author |-> Get(Get(tweet, "author", EmptyDict), "userName", s_unknown),
     hashtags |-> Take(HashtagsOf(tweet), HashtagCap)]

\* line 241
\* (SortByEngagementNone: the list left in fetch order)
SortByEngagementNone(pts) == pts
SortByEngagement(pts) ==
    Unpair(SortPairsDesc([i \in DOMAIN pts |-> <<pts[i].engagement.score, pts[i]>>]))

\* lines 221-241
ProcessedTweets(tws) ==
    LET v == VisitedTweets(tws)
    IN  SortByEngagement([i \in DOMAIN v |-> ProcessedTweet(i, v[i])])

\* lines 222-226: the hashtags of the visited posts, uncapped, in order
AllHashtags(tws) ==
    LET v == VisitedTweets(tws)
    IN  Flatten([i \in DOMAIN v |-> HashtagsOf(v[i])])

\* lines 244-246: the dict keeps its keys in order of first insertion
HashtagFreq(all) ==
    LET firsts == {i \in DOMAIN all : \A j \in 1..(i - 1) : all[j] # all[i]}
        Nth(n) == CHOOSE i \in firsts : Cardinality({j \in firsts : j <= i}) = n
    IN  [n \in 1..Cardinality(firsts) |->
            [tag |-> all[Nth(n)],
             mentions |-> Cardinality({j \in DOMAIN all : all[j] = all[Nth(n)]})]]

\* lines 248, 292
TopHashtags(freq) ==
    Take(Unpair(SortPairsDesc([i \in DOMAIN freq |-> <<freq[i].mentions, freq[i]>>])),
         TopHashtagCap)

\* round(num / den) as Python rounds: to the nearest integer, a half to the
\* even neighbour
Round(num, den) ==
    LET fl == num \div den
        twice == 2 * (num % den)
    IN  IF twice > den \/ (twice = den /\ fl % 2 = 1) THEN fl + 1 ELSE fl

\* (OpportunityScoreRounded: the score with round() in place of int())
OpportunityScoreRounded(volume, competition) ==
    IF competition # None /\ competition.q < CompDenom
    THEN Round(volume * (CompDenom - competition.q), CompDenom)
    ELSE volume

\* lines 259-264: int(volume * (1 - competition)) truncates toward zero; the
\* product is not negative here, so truncation is the floor
OpportunityScore(volume, competition) ==
    IF competition # None /\ competition.q < CompDenom
    THEN (volume * (CompDenom - competition.q)) \div CompDenom
    ELSE volume

\* lines 253-267: kw["opportunity_score"] = score writes into the caller's
\* record; the records of the list after the loop
ScoredRecords(recs) ==
    [i \in DOMAIN recs |->
        IF VolumeOrZero(recs[i]) > 0
        THEN SetItem(recs[i], "opportunity_score",
                     JNum(OpportunityScore(VolumeOrZero(recs[i]),
                                           Get(recs[i], "competition", None))))
        ELSE recs[i]]

\* lines 251-270
BestKeywords(recs) ==
    LET scored == ScoredRecords(recs)
        best == SelectSeq(scored, LAMBDA kw : VolumeOrZero(kw) > 0)
    IN  Unpair(SortPairsDesc(
            [i \in DOMAIN best |->
                <<Get(best[i], "opportunity_score", JNum(0)).n, best[i]>>]))

\* lines 273-293: the report; all_keyword_data is the caller's list itself,
\* whose records the loop above has written into
ProcessTweets(tws, ca, recs, now) ==
    LET processed == ProcessedTweets(tws)
        freq == HashtagFreq(AllHashtags(tws))
    IN  [generated_at |-> now,
         summary |->
            [total_tweets |-> Len(tws),
             unique_hashtags |-> Len(freq),
             total_engagement |->
                Sum([i \in DOMAIN processed |-> processed[i].engagement.score]),
             keywords_analyzed |-> Len(recs)],
         ai_insights |->
            [topics |-> Get(ca, s_topics, JArr(<< >>)),
             emerging_trends |-> Get(ca, s_trends, JArr(<< >>)),
             key_technologies |-> Get(ca, s_technologies, JArr(<< >>)),
             recommended_keywords |-> Get(ca, s_keywords, JArr(<< >>))],
         seo_analysis |->
            [best_opportunities |-> Take(BestKeywords(recs), BestCap),
             all_keyword_data |-> ScoredRecords(recs)],
         top_trending_tweets |-> processed,
         top_hashtags |-> TopHashtags(freq)]

(***************************************************************************)
(* The payloads the external APIs are modelled to return                   *)
(***************************************************************************)
h_AI == <<"A", "I">>
h_ai == <<"a", "i">>
h_ML == <<"M", "L">>
h_robotics == <<"r", "o", "b", "o", "t", "i", "c", "s">>
h_LLM == <<"L", "L", "M">>
h_llm == <<"l", "l", "m">>
h_rag == <<"r", "a", "g">>
h_Agents == <<"A", "g", "e", "n", "t", "s">>
h_gpu == <<"g", "p", "u">>

\* the two posts of the specification's ordering example, then posts with
\* missing fields, an over-long text, more than HashtagCap hashtags, hashtags
\* at the length boundaries, and n distinct hashtags of lengths 3 .. n + 2
P1 ==
    [text |-> <<"A", "I", " ", "i", "s", " ", "h", "e", "r", "e">>, likeCount |-> 10, retweetCount |-> 5,
     author |-> [userName |-> <<"a", "n", "n">>], hashtags |-> <<h_AI, h_ai, h_ML>>]
P2 ==
    [likeCount |-> 12, retweetCount |-> 0, hashtags |-> <<h_robotics>>]
P3 ==
    [text |-> Rep("x", TextCap + 1), retweetCount |-> 3, author |-> EmptyDict,
     hashtags |-> <<h_LLM, h_llm, h_rag, h_LLM, h_Agents, h_gpu, h_robotics>>]
PEdge ==
    [likeCount |-> 1,
     hashtags |-> << << >>, h_ai, Rep("A", MinLenExcl + 1), Rep("a", MaxLenExcl - 1),
                     Rep("a", MaxLenExcl) >>]
PMany(n) ==
    [likeCount |-> 2, hashtags |-> [i \in 1..n |-> Rep("a", i + MinLenExcl)]]

\* the search API's outcomes: the call raised, or a JSON body with `tweets`
FetchResponses ==
    {[kind |-> "error", tweets |-> << >>]} \cup
    {[kind |-> "ok", tweets |-> t] :
        t \in {<< >>, <<P1>>, <<P2, P1>>, <<PEdge, P3>>}}

t_prose == <<"N", "o", " ", "J", "S", "O", "N", " ", "h", "e", "r", "e", ".">>
t_example == <<"S", "u", "r", "e", ":", " ", "{", "\"", "t", "o", "p", "i", "c", "s", "\"", ":", "[", "\"", "x", "\"", "]", "}", " ", "o", "k">>
t_full == <<"H", "e", "r", "e", ":", " ", "{", "\"", "t", "o", "p", "i", "c", "s", "\"", ":", " ", "[", "\"", "A", "I", " ", "a", "g", "e", "n", "t", "s", "\"", "]", ",", " ", "\"", "t", "r", "e", "n", "d", "s", "\"", ":", " ", "[", "\"", "x", "\"", "]", ",", " ", "\"", "t", "e", "c", "h", "n", "o", "l", "o", "g", "i", "e", "s", "\"", ":", " ", "[", "\"", "R", "A", "G", "\"", "]", ",", " ", "\"", "k", "e", "y", "w", "o", "r", "d", "s", "\"", ":", " ", "[", "\"", "r", "o", "b", "o", "t", "i", "c", "s", "\"", ",", " ", "\"", "a", "i", "\"", "]", "}">>
t_null == <<"{", "\"", "k", "e", "y", "w", "o", "r", "d", "s", "\"", ":", " ", "n", "u", "l", "l", "}">>
t_number == <<"{", "\"", "t", "o", "p", "i", "c", "s", "\"", ":", " ", "[", "1", "]", "}">>
t_shapes == <<"{", "\"", "t", "o", "p", "i", "c", "s", "\"", ":", " ", "\"", "a", "b", "c", "\"", ",", " ", "\"", "k", "e", "y", "w", "o", "r", "d", "s", "\"", ":", " ", "{", "\"", "r", "o", "b", "o", "t", "i", "c", "s", "\"", ":", " ", "1", "}", "}">>
t_invalid == <<"{", "\"", "t", "o", "p", "i", "c", "s", "\"", ":", " ", "[", "}">>

LLMResponse(kind, text) == [kind |-> kind, text |-> text]

\* the LLM API's outcomes enumerated in a run of main
MainLLMResponses ==
    {LLMResponse("error", << >>), LLMResponse("empty_content", << >>),
     LLMResponse("no_text", << >>)} \cup
    {LLMResponse("text", t) :
        t \in {t_prose, t_full, t_null, t_number, t_shapes, t_invalid}}

\* every string over cs of length n
RECURSIVE Strings(_, _)
Strings(cs, n) ==
    IF n = 0 THEN {<< >>}
    ELSE {Append(x, c) : x \in Strings(cs, n - 1), c \in cs}

ReplyCores ==
    {<<"{", "\"", "t", "o", "p", "i", "c", "s", "\"", ":", "[", "\"", "x", "\"", "]", "}">>, <<"{", "}">>, <<"{", "\"", "a", "\"", ":", " ", "{", "\"", "b", "\"", ":", " ", "[", "1", ",", " ", "n", "u", "l", "l", "]", "}", "}">>, <<"{", "\"", "a", "\"", ":", "1", ",", "\"", "a", "\"", ":", "2", "}">>,
     <<"{", "\"", "a", "\"", " ", "1", "}">>, <<"[", "\"", "x", "\"", "]">>, <<"n", "u", "l", "l">>, <<"{", "\"", "a", "\"", ":", "t", "r", "u", "e", ",", "}">>, <<"{", "\"", "a", "\"", ":", "0", "1", "}">>}

\* the reply texts enumerated for analyze_with_claude alone: every string of
\* braces and a prose character up to MaxReplyLen, and JSON fragments inside
\* prose that may itself hold a brace
ReplyTexts ==
    (UNION {Strings({"{", "}", "x"}, n) : n \in 0..MaxReplyLen}) \cup
    {pre \o core \o post :
        pre \in {<< >>, <<"S", "u", "r", "e", ":", " ">>, <<"}", " ">>, <<"{", " ">>},
        core \in ReplyCores,
        post \in {<< >>, <<" ", "o", "k">>, <<" ", "}">>, <<" ", "{">>}}

AllLLMResponses ==
    {LLMResponse("error", << >>), LLMResponse("empty_content", << >>),
     LLMResponse("no_text", << >>)} \cup
    {LLMResponse("text", t) : t \in ReplyTexts}

\* an item of tasks[].result[].items[]
Item(keyword, volume, competition) ==
    [keyword |-> JStr(keyword),
     keyword_info |-> [search_volume |-> volume, competition |-> competition,
                       cpc |-> JFrac(1)],
     keyword_properties |-> [keyword_difficulty |-> JNum(40)]]

Items ==
    << Item(<<"s", "e", "o">>, JNum(1000), JFrac(2)), Item(<<"x">>, JNum(500), None),
       Item(<<"y">>, JNum(0), JFrac(1)), Item(<<"z">>, None, None),
       Item(<<"w">>, JNum(3), JFrac(2)), Item(<<"v">>, JNum(1), JFrac(1)),
       Item(<<"u">>, JNum(10), JFrac(CompDenom)), Item(<<"t">>, JNum(10), JFrac(CompDenom + 1)),
       Item(<<"s">>, JNum(7), JFrac(0)) >>

SeoResponse(kind, tasks) == [kind |-> kind, tasks |-> tasks]

\* the scoring API's outcomes enumerated in a run of main
MainSeoResponses ==
    {SeoResponse("error", << >>),
     SeoResponse("ok", << >>),
     SeoResponse("ok", << [result |-> << [items |-> SubSeq(Items, 1, 5)] >>],
                          [id |-> 2] >>),
     SeoResponse("ok", << [result |-> << [items |-> <<Items[6], Items[1]>>],
                                         [items |-> <<[keyword |-> JStr(<<"q">>)]>>] >>] >>),
     SeoResponse("ok", << [result |-> << [items |->
                            <<[keyword |-> JStr(<<"q">>), keyword_info |-> None]>>] >>] >>)}

(***************************************************************************)
(* fetch_trending_tweets, save_report and the statements of main           *)
(***************************************************************************)
\* lines 46-56: data.get("tweets", []), or [] when the call raised
FetchTrendingTweets(resp) == IF resp.kind = "error" THEN << >> ELSE resp.tweets

\* line 363: `if not tweets`
\* (NoTweetsNever: the check left out)
NoTweetsNever(tws) == FALSE
NoTweets(tws) == tws = << >>

DigitChar(n) == CHOOSE c \in Digits : DigitValue[c] = n

RECURSIVE Decimal(_)
Decimal(n) ==
    IF n < 10 THEN <<DigitChar(n)>>
    ELSE Decimal(n \div 10) \o <<DigitChar(n % 10)>>

\* lines 299-300: the file name carries the time of the call
Filename(now) == JStr(<<"a", "i", "_", "t", "r", "e", "n", "d", "s", "_", "a", "n", "a", "l", "y", "s", "i", "s", "_">> \o Decimal(now) \o <<".", "j", "s", "o", "n">>)

\* truth value of a parsed JSON value
Truthy(v) ==
    CASE v = None -> FALSE
      [] v.t = "bool" -> v.b
      [] v.t = "num" -> v.n # 0
      [] v.t = "frac" -> v.q # 0
      [] v.t = "float" -> TRUE
      [] v.t = "str" -> v.s # << >>
      [] v.t = "arr" -> v.a # << >>
      [] v.t = "obj" -> DOMAIN v.d # {}

\* lines 395-398: `', '.join(v[:3])` under `if v`: only a list or a str can
\* be sliced, and join accepts only str elements
JoinFirstRaises(v) ==
    /\ Truthy(v)
    /\ CASE v.t = "arr" -> \E i \in DOMAIN Take(v.a, 3) : v.a[i].t # "str"
         [] v.t = "str" -> FALSE
         [] OTHER -> TRUE

\* lines 389-415: whether the closing summary raises.  Line 413 formats
\* kw['keyword'] with a width, which None does not support.
SummaryRaises(ca, rep) ==
    \/ JoinFirstRaises(Get(ca, s_topics, None))
    \/ JoinFirstRaises(Get(ca, s_trends, None))
    \/ \E i \in DOMAIN rep.seo_analysis.best_opportunities :
          rep.seo_analysis.best_opportunities[i].keyword = None

\* lines 361-368
Step1 ==
    /\ pc = "step1"
    /\ \E resp \in FetchResponses :
          LET t == FetchTrendingTweets(resp)
          IN  /\ tweets' = t
              /\ calls' = calls \cup {"twitter"}
              /\ IF NoTweets(t)
                 THEN pc' = "done" /\ outcome' = "exit1"
                 ELSE pc' = "step2" /\ outcome' = outcome
    /\ UNCHANGED << DATAFORSEO_LOGIN, clock, llm_response, claude_analysis, keywords,
                    dataforseo_keywords, report, filename, files >>

\* line 371
Step2(responses) ==
    /\ pc = "step2"
    /\ IF ClaudeCalled(tweets)
       THEN \E resp \in responses :
               /\ llm_response' = resp
               /\ claude_analysis' = AnalyzeWithClaude(tweets, resp)
               /\ calls' = calls \cup {"claude"}
       ELSE /\ claude_analysis' = AnalyzeWithClaude(tweets, llm_response)
            /\ UNCHANGED << llm_response, calls >>
    /\ pc' = "step3"
    /\ UNCHANGED << DATAFORSEO_LOGIN, clock, tweets, keywords, dataforseo_keywords,
                    report, filename, files, outcome >>

\* lines 374-375
Step3 ==
    /\ pc = "step3"
    /\ \E r \in ExtractKeywordsFromTweets(tweets, claude_analysis) :
          IF r.raised
          THEN pc' = "done" /\ outcome' = "raised" /\ keywords' = keywords
          ELSE pc' = "step3b" /\ outcome' = outcome /\ keywords' = r.val
    /\ UNCHANGED << DATAFORSEO_LOGIN, clock, tweets, llm_response, claude_analysis,
                    dataforseo_keywords, report, filename, files, calls >>

\* line 377
Step3b(responses) ==
    /\ pc = "step3b"
    /\ IF DataforseoCalled(keywords, DATAFORSEO_LOGIN)
       THEN \E resp \in responses :
               /\ dataforseo_keywords' =
                     AnalyzeKeywordsWithDataforseo(keywords, DATAFORSEO_LOGIN, resp)
               /\ calls' = calls \cup {"dataforseo"}
       ELSE /\ dataforseo_keywords' = << >>
            /\ calls' = calls
    /\ pc' = "step4"
    /\ UNCHANGED << DATAFORSEO_LOGIN, clock, tweets, llm_response, claude_analysis,
                    keywords, report, filename, files, outcome >>

\* line 380: the call also rewrites the records of the list it was passed
Step4 ==
    /\ pc = "step4"
    /\ report' = ProcessTweets(tweets, claude_analysis, dataforseo_keywords, clock)
    /\ dataforseo_keywords' = ScoredRecords(dataforseo_keywords)
    /\ pc' = "step5"
    /\ UNCHANGED << DATAFORSEO_LOGIN, clock, tweets, llm_response, claude_analysis,
                    keywords, filename, files, calls, outcome >>

\* line 383, save_report (lines 297-309): the write succeeds, or open() fails
\* and nothing is on disk, or the dump fails and leaves the file behind
Step5 ==
    /\ pc = "step5"
    /\ \E result \in {"saved", "open_failed", "dump_failed"} :
          /\ filename' = IF result = "saved" THEN Filename(clock) ELSE None
          /\ files' = IF result = "open_failed" THEN files
                      ELSE files \cup {Filename(clock)}
    /\ pc' = "summary"
    /\ UNCHANGED << DATAFORSEO_LOGIN, clock, tweets, llm_response, claude_analysis,
                    keywords, dataforseo_keywords, report, calls, outcome >>

\* lines 385-416
Summary ==
    /\ pc = "summary"
    /\ outcome' = IF SummaryRaises(claude_analysis, report) THEN "raised" ELSE "returned"
    /\ pc' = "done"
    /\ UNCHANGED << DATAFORSEO_LOGIN, clock, tweets, llm_response, claude_analysis,
                    keywords, dataforseo_keywords, report, filename, files, calls >>

\* the process's exit status once main has ended
ExitStatus == IF outcome = "returned" THEN 0 ELSE 1

(***************************************************************************)
(* Spec: a run of main                                                     *)
(***************************************************************************)
Logins == {None, JStr(s_placeholder), JStr(s_login)}

Init ==
    /\ pc = "step1"
    /\ DATAFORSEO_LOGIN \in Logins
    /\ clock \in 0..MaxClock
    /\ tweets = << >>
    /\ llm_response = LLMResponse("error", << >>)
    /\ claude_analysis = EmptyDict
    /\ keywords = EmptyBag
    /\ dataforseo_keywords = << >>
    /\ report = None
    /\ filename = None
    /\ files = {}
    /\ calls = {}
    /\ outcome = "running"

Next ==
    \/ Step1
    \/ Step2(MainLLMResponses)
    \/ Step3
    \/ Step3b(MainSeoResponses)
    \/ Step4
    \/ Step5
    \/ Summary

Spec == Init /\ [][Next]_vars

(***************************************************************************)
(* SpecClaude: analyze_with_claude on every enumerated LLM outcome         *)
(***************************************************************************)
InitClaude ==
    /\ pc = "step2"
    /\ DATAFORSEO_LOGIN = None
    /\ clock = 0
    /\ tweets \in {<<P1>>, <<P2, P1>>}
    /\ llm_response = LLMResponse("error", << >>)
    /\ claude_analysis = EmptyDict
    /\ keywords = EmptyBag
    /\ dataforseo_keywords = << >>
    /\ report = None
    /\ filename = None
    /\ files = {}
    /\ calls = {"twitter"}
    /\ outcome = "running"

NextClaude == Step2(AllLLMResponses)

SpecClaude == InitClaude /\ [][NextClaude]_vars

(***************************************************************************)
(* SpecExtract: extract_keywords_from_tweets on post lists and on insight  *)
(* bundles of the documented shape (arrays of strings under the four keys, *)
(* the raw_response fallback, or empty)                                    *)
(***************************************************************************)
ExtractPosts ==
    {<< >>, <<P1>>, <<P2, P1>>, <<PEdge>>, <<PEdge, P3>>, <<P3, P1>>,
     <<PMany(KeywordCap - 1), P2>>}

\* post lists with about KeywordCap distinct hashtags, and more
ExtractManyPosts ==
    {<<PMany(n)>> : n \in (KeywordCap - 1)..MaxTags} \cup {<<PMany(KeywordCap), P2>>}

ExtractBundles ==
    {EmptyDict, ParseReply(t_prose), ParseReply(t_example), ParseReply(t_full),
     ParseReply(<<"{", "\"", "k", "e", "y", "w", "o", "r", "d", "s", "\"", ":", " ", "[", "\"", "a", "i", "\"", ",", " ", "\"", "r", "o", "b", "o", "t", "i", "c", "s", "\"", "]", "}">>),
     ParseReply(<<"{", "\"", "t", "e", "c", "h", "n", "o", "l", "o", "g", "i", "e", "s", "\"", ":", " ", "[", "\"", "G", "P", "U", "\"", ",", " ", "\"", "g", "p", "u", "\"", ",", " ", "\"", "M", "L", "\"", "]", ",", " ", "\"", "t", "o", "p", "i", "c", "s", "\"", ":", " ", "[", "]", "}">>),
     ParseReply(<<"{", "\"", "t", "r", "e", "n", "d", "s", "\"", ":", " ", "[", "\"", "A", "g", "e", "n", "t", "s", "\"", "]", ",", " ", "\"", "k", "e", "y", "w", "o", "r", "d", "s", "\"", ":", " ", "[", "\"">> \o Rep("K", MaxLenExcl) \o <<"\"", "]", "}">>)}

InitExtract ==
    /\ pc = "step3"
    /\ DATAFORSEO_LOGIN = None
    /\ clock = 0
    /\ \/ tweets \in ExtractPosts /\ claude_analysis \in ExtractBundles
       \/ /\ tweets \in ExtractManyPosts
          /\ claude_analysis \in {EmptyDict, ParseReply(t_example)}
    /\ llm_response = LLMResponse("error", << >>)
    /\ keywords = EmptyBag
    /\ dataforseo_keywords = << >>
    /\ report = None
    /\ filename = None
    /\ files = {}
    /\ calls = {"twitter", "claude"}
    /\ outcome = "running"

NextExtract == Step3

SpecExtract == InitExtract /\ [][NextExtract]_vars

(***************************************************************************)
(* SpecAssemble: process_tweets on post lists (short ones over the pool,   *)
(* and ones of TweetCap posts and more), insight bundles and the keyword *)
(* record lists the scorer can return (sorted by volume, as it leaves      *)
(* them)                                                                   *)
(***************************************************************************)
PostPool == {P1, P2, P3}

AssemblePosts ==
    {<<p>> : p \in PostPool} \cup {<<p, q>> : p, q \in PostPool} \cup
    {<<P2, P1, P3>>, <<P3, P2, P1>>, <<PEdge, P1>>} \cup
    {Rep(p, n - 1) \o <<q>> : n \in TweetCap..MaxPosts, p \in PostPool, q \in PostPool}

AssembleBundles == {EmptyDict, ParseReply(t_prose), ParseReply(t_full)}

RecordPool == {KeywordRecord(Items[i]) : i \in DOMAIN Items}

AssembleRecords ==
    {<< >>} \cup {<<r>> : r \in RecordPool} \cup
    {SortByVolume(<<r, q>>) : r, q \in RecordPool} \cup
    {SortByVolume([i \in 1..(BestCap + 1) |->
        KeywordRecord(Item(<<"k">>, JNum(i), JFrac(i % (CompDenom + 1))))])}

InitAssemble ==
    /\ pc = "step4"
    /\ DATAFORSEO_LOGIN = JStr(s_login)
    /\ clock \in 0..MaxClock
    /\ tweets \in AssemblePosts
    /\ llm_response = LLMResponse("error", << >>)
    /\ claude_analysis \in AssembleBundles
    /\ keywords = EmptyBag
    /\ dataforseo_keywords \in AssembleRecords
    /\ report = None
    /\ filename = None
    /\ files = {}
    /\ calls = {"twitter", "claude", "dataforseo"}
    /\ outcome = "running"

NextAssemble == Step4

SpecAssemble == InitAssemble /\ [][NextAssemble]_vars

(***************************************************************************)
(* Properties                                                              *)
(***************************************************************************)

\* C1: in a run of main whose fetch stage returned zero posts (an empty
\* `tweets` array, or the empty fallback after a failed call), the process has
\* ended with a non-zero exit status and no later stage ran: no request went
\* to the LLM API or to the scoring API, no report was assembled and no
\* report file was written.
C1_ZeroPostsAbort ==
    (pc # "step1" /\ tweets = << >>) =>
        /\ pc = "done"
        /\ outcome = "exit1"
        /\ ExitStatus # 0
        /\ "claude" \notin calls
        /\ "dataforseo" \notin calls
        /\ report = None
        /\ filename = None
        /\ files = {}

C1_Witness ==
    /\ pc = "done"
    /\ tweets = << >>
    /\ calls = {"twitter"}
    /\ outcome = "exit1"

\* C2: in a run of main whose fetch stage returned at least one post, nothing
\* the LLM call and the scoring call produce is fatal: the run never raises,
\* assembles and saves a report and exits zero; and when both enrichment
\* calls failed the report's four ai_insights arrays and
\* seo_analysis.all_keyword_data are empty.
C2_EnrichmentNeverFatal ==
    (pc = "done" /\ tweets # << >>) =>
        /\ outcome = "returned"
        /\ ExitStatus = 0
        /\ report # None
        /\ (claude_analysis = EmptyDict /\ dataforseo_keywords = << >>) =>
              /\ report.ai_insights =
                    [topics |-> JArr(<< >>), emerging_trends |-> JArr(<< >>),
                     key_technologies |-> JArr(<< >>),
                     recommended_keywords |-> JArr(<< >>)]
              /\ report.seo_analysis.all_keyword_data = << >>

\* a keyword record without the key process_tweets adds
BaseRecord(kw) == [k \in (DOMAIN kw) \ {"opportunity_score"} |-> kw[k]]

\* C3, C9: the step of main that calls process_tweets
AssembleStep == pc = "step4" /\ pc' = "step5"

\* the statement of C3 about one call; volume * (CompDenom - q) / CompDenom
\* becomes the integer score by rounding, or else by truncation
C3_Scoring(rounded) ==
    \A i \in DOMAIN dataforseo_keywords :
        LET r == dataforseo_keywords[i]
            all == report'.seo_analysis.all_keyword_data
            best == report'.seo_analysis.best_opportunities
            expected ==
                IF r.competition = None \/ r.competition.q >= CompDenom
                THEN r.search_volume.n
                ELSE IF rounded
                THEN Round(r.search_volume.n * (CompDenom - r.competition.q), CompDenom)
                ELSE (r.search_volume.n * (CompDenom - r.competition.q)) \div CompDenom
        IN  IF r.search_volume = None \/ r.search_volume.n <= 0
            THEN /\ \A j \in DOMAIN best : BaseRecord(best[j]) # r
                 /\ \E j \in DOMAIN all : BaseRecord(all[j]) = r
            ELSE /\ BaseRecord(all[i]) = r
                 /\ all[i].opportunity_score = JNum(expected)
                 /\ \A j \in DOMAIN best :
                       BaseRecord(best[j]) = r =>
                          best[j].opportunity_score = JNum(expected)

\* C3: for every keyword record passed to process_tweets: with a search
\* volume unknown or <= 0 it is not in best_opportunities but is still in
\* all_keyword_data; otherwise its opportunity is the volume when competition
\* is unknown or >= 1.0, and round(volume x (1 - competition)) when
\* competition < 1.0.
C3_RoundedScore == [][AssembleStep => C3_Scoring(TRUE)]_vars

\* C3 as amended: the same, with volume x (1 - competition) truncated to an
\* integer (int(...)) instead of rounded.
C3_TruncatedScore == [][AssembleStep => C3_Scoring(FALSE)]_vars

\* volume 3 at competition 0.5 scored 1 (1.5 truncated), volume 500 with
\* unknown competition scored 500, or a record of volume 0 kept out of
\* best_opportunities
C3_Witness ==
    /\ pc = "step5"
    /\ \E i \in DOMAIN dataforseo_keywords :
          /\ dataforseo_keywords[i].search_volume = JNum(3)
          /\ dataforseo_keywords[i].competition = JFrac(2)
          /\ dataforseo_keywords[i].opportunity_score = JNum(1)
          /\ dataforseo_keywords[i] \in Range(report.seo_analysis.best_opportunities)
    /\ \E i \in DOMAIN dataforseo_keywords :
          \/ /\ dataforseo_keywords[i].search_volume = JNum(500)
             /\ dataforseo_keywords[i].competition = None
             /\ dataforseo_keywords[i].opportunity_score = JNum(500)
          \/ /\ dataforseo_keywords[i].search_volume = JNum(0)
             /\ dataforseo_keywords[i] \notin Range(report.seo_analysis.best_opportunities)

\* the strings the claim lets extract_keywords_from_tweets draw from: every
\* post hashtag and every entry of the bundle's keywords, topics and
\* technologies arrays
C4_Sources ==
    (UNION {Range(Get(tweets[i], "hashtags", << >>)) : i \in DOMAIN tweets}) \cup
    UNION { {x.s : x \in Range(Get(claude_analysis, key, JArr(<< >>)).a)} :
            key \in {s_keywords, s_topics, s_technologies} }

C4_Eligible ==
    {k \in {Lower(x) : x \in C4_Sources} : Len(k) > 2 /\ Len(k) < 50}

\* C4: extract_keywords_from_tweets returns a duplicate-free list of at most
\* 20 strings, each the lower-cased form of a post hashtag or of an entry of
\* the bundle's keywords, topics or technologies arrays, of length > 2 and
\* < 50 (so "ai" and "ml" are never returned); when 20 or fewer strings
\* qualify, the result holds exactly those.
C4_KeywordList ==
    pc = "step3b" =>
        /\ \A k \in BagToSet(keywords) : CopiesIn(k, keywords) = 1
        /\ BagCardinality(keywords) <= 20
        /\ BagToSet(keywords) \subseteq C4_Eligible
        /\ h_ai \notin BagToSet(keywords)
        /\ Lower(h_ML) \notin BagToSet(keywords)
        /\ Cardinality(C4_Eligible) <= 20 => BagToSet(keywords) = C4_Eligible

\* more than 20 strings qualified and 20 were returned
C4_Witness ==
    /\ pc = "step3b"
    /\ Cardinality(C4_Eligible) > 20
    /\ BagCardinality(keywords) = 20

\* C5: with the scoring-API login unset or left at the placeholder value,
\* analyze_keywords_with_dataforseo returns an empty sequence and no request
\* goes to the scoring API, for every keyword list.
C5_NoRequestWithoutCredentials ==
    DATAFORSEO_LOGIN \in {None, JStr(s_placeholder)} =>
        /\ "dataforseo" \notin calls
        /\ dataforseo_keywords = << >>

\* the result C6 states for a reply text
C6_Expected(text) ==
    LET opens == {i \in DOMAIN text : text[i] = "{"}
        closes == {i \in DOMAIN text : text[i] = "}"}
        first == CHOOSE i \in opens : \A j \in opens : i <= j
        last == CHOOSE i \in closes : \A j \in closes : j <= i
    IN  IF /\ opens # {}
           /\ closes # {}
           /\ first < last
           /\ ~JsonLoads(SubSeq(text, first, last)).raised
        THEN JsonLoads(SubSeq(text, first, last)).val.d
        ELSE [k \in {s_raw_response} |-> JStr(text)]

C7_Score(tweet) == Get(tweet, "likeCount", 0) + 2 * Get(tweet, "retweetCount", 0)

\* the summary counters C7 states, counted over the first n posts
C7_Counters(n) ==
    LET counted == SubSeq(tweets, 1, IF Len(tweets) < n THEN Len(tweets) ELSE n)
    IN  /\ outcome # "raised"
        /\ report.summary.total_tweets = Len(tweets)
        /\ report.summary.unique_hashtags =
              Cardinality(UNION {Range(Get(counted[i], "hashtags", << >>)) :
                                 i \in DOMAIN counted})
        /\ report.summary.total_engagement =
              Sum([i \in DOMAIN counted |-> C7_Score(counted[i])])
        /\ report.summary.keywords_analyzed = Len(dataforseo_keywords)

\* C7: for a post list of any length, process_tweets does not raise and the
\* summary agrees with the inputs: total_tweets is the number of posts,
\* unique_hashtags the number of distinct hashtags over all posts,
\* total_engagement the sum of likes + 2 x retweets over all posts,
\* keywords_analyzed the number of keyword records.
C7_CountersOverAllPosts == pc = "step5" => C7_Counters(Len(tweets))

\* C7 as amended: unique_hashtags and total_engagement are counted over the
\* first 10 posts only.
C7_CountersOverFirstTen == pc = "step5" => C7_Counters(10)

\* an eleventh post whose hashtag and engagement the summary leaves out
C7_Witness ==
    /\ pc = "step5"
    /\ Len(tweets) > 10
    /\ report.summary.total_tweets = Len(tweets)
    /\ report.summary.total_engagement <
          Sum([i \in DOMAIN tweets |-> C7_Score(tweets[i])])
    /\ report.summary.unique_hashtags <
          Cardinality(UNION {Range(Get(tweets[i], "hashtags", << >>)) :
                             i \in DOMAIN tweets})

\* C8: top_trending_tweets is in descending order of engagement score, each
\* entry's score being likes + 2 x retweets of its post (a missing count is
\* 0): of two entries, the one with the strictly higher score comes first.
C8_DescendingEngagement ==
    pc = "step5" =>
        LET top == report.top_trending_tweets
        IN  /\ \A i \in DOMAIN top :
                  /\ top[i].engagement.score =
                        top[i].engagement.likes + 2 * top[i].engagement.retweets
                  /\ \E k \in DOMAIN tweets :
                        /\ top[i].engagement.likes = Get(tweets[k], "likeCount", 0)
                        /\ top[i].engagement.retweets = Get(tweets[k], "retweetCount", 0)
            /\ \A i, j \in DOMAIN top :
                  top[i].engagement.score > top[j].engagement.score => i < j

\* the specification's example: the post with likes 10, retweets 5 (score 20)
\* was fetched after the post with likes 12, retweets 0 and ranks above it
C8_Witness ==
    /\ pc = "step5"
    /\ tweets = <<P2, P1>>
    /\ report.top_trending_tweets[1].engagement.score = 20
    /\ report.top_trending_tweets[2].engagement.score = 12

\* C9: process_tweets leaves its arguments as they were: the post list, the
\* insight bundle and every keyword record are unchanged by the call, and
\* all_keyword_data holds the records as the scorer produced them.
C9_ArgumentsUnchanged ==
    [][AssembleStep =>
         /\ tweets' = tweets
         /\ claude_analysis' = claude_analysis
         /\ dataforseo_keywords' = dataforseo_keywords
         /\ report'.seo_analysis.all_keyword_data = dataforseo_keywords]_vars

\* C10: the rank of each entry of top_trending_tweets is its 1-based
\* position in the list as ranked by descending engagement score.
C10_RankIsPosition ==
    pc = "step5" =>
        \A i \in DOMAIN report.top_trending_tweets :
            report.top_trending_tweets[i].rank = i

====
